---- MODULE Spec2Model ----
\* A model of the hierarchical Markdown index: the ingestion pipeline of
\* ingest_md_to_chroma.py (chunker, hierarchy deriver, metadata builder,
\* orchestrator) and the summaries-first merge of query_chrome_rlm.py.
\*
\* Strings the code inspects character by character (document text, file and
\* folder names, relative paths, chunk ids) are sequences of one-character
\* strings; a filesystem path is the sequence of its components.
EXTENDS Integers, Sequences, FiniteSets, TLC

VARIABLES
    pc,                         \* position of the running script
    text, size, chunks,         \* split_into_chunks: arguments and result
    n_results, retrieve_summaries_first, where_filter,
    results, combined, shown,   \* query_with_hierarchy: store answer, merged list, printed list
    file_path, root, hierarchy, \* get_folder_hierarchy: arguments and result
    tree,                       \* the document tree: file path -> text
    unreadable, unembeddable,   \* documents on which read_markdown / embed_fn raises
    chunk_size,                 \* the configured CHUNK_SIZE
    files, pos,                 \* main: the walk's result and the loop's position in it
    collection,                 \* the store: chunk id -> record
    failure,                    \* the exception that ended main, if any
    run, added,                 \* which run of main this is, the batches it has submitted
    firstRun, firstAdded,       \* the store and the batches at the end of the first run
    start_url, visited, queue,  \* crawl: its argument, the visited set, the work queue
    fetches, saved              \* crawl: fetch calls per URL, URLs whose Markdown was written

chunkVars == <<text, size, chunks>>
queryVars == <<n_results, retrieve_summaries_first, where_filter, results, combined, shown>>
hierVars == <<file_path, root, hierarchy>>
treeVars == <<tree, unreadable, unembeddable, chunk_size>>
ingestVars == <<files, pos, collection, failure, run, added, firstRun, firstAdded>>
crawlVars == <<start_url, visited, queue, fetches, saved>>
vars == <<pc, chunkVars, queryVars, hierVars, treeVars, ingestVars, crawlVars>>

\* ---------------------------------------------------------------- bounds
MaxLen == 5        \* longest document text, in characters (chunker)
MaxSize == 3       \* largest chunk size, in words (chunker)
MaxN == 2          \* largest n_results of a query
MaxDist == 1       \* distances reported by the store are 0..MaxDist
MaxDepth == 3      \* deepest parent directory of a path (hierarchy deriver)
MaxFiles == 2      \* most files in the document tree (ingestion)
MaxLinks == 2      \* most links on one page (crawler)

\* ------------------------------------------------------- string helpers
None == "None"

Whitespace == {" ", "\n"}

RECURSIVE SplitFrom(_, _, _)
\* str.split() with no separator, scanning from position i with the current
\* word cur: runs of whitespace separate words, empty words are dropped.
SplitFrom(s, i, cur) ==
    IF i > Len(s)
    THEN IF cur = <<>> THEN <<>> ELSE <<cur>>
    ELSE IF s[i] \in Whitespace
         THEN IF cur = <<>>
              THEN SplitFrom(s, i + 1, <<>>)
              ELSE <<cur>> \o SplitFrom(s, i + 1, <<>>)
         ELSE SplitFrom(s, i + 1, Append(cur, s[i]))

Split(s) == SplitFrom(s, 1, <<>>)

RECURSIVE Join(_, _)
\* sep.join(parts)
Join(sep, parts) ==
    IF parts = <<>> THEN <<>>
    ELSE IF Len(parts) = 1 THEN parts[1]
    ELSE parts[1] \o sep \o Join(sep, Tail(parts))

\* words[i : j] with 0-based, end-exclusive indices clipped to the list
Slice(seq, i, j) ==
    LET hi == IF j > Len(seq) THEN Len(seq) ELSE j
    IN  IF i >= hi THEN <<>> ELSE SubSeq(seq, i + 1, hi)

\* ------------------------------------------------------------- chunker
RECURSIVE ChunksFrom(_, _, _)
\* the loop "for i in range(0, len(words), size)"
ChunksFrom(words, i, sz) ==
    IF i >= Len(words) THEN <<>>
    ELSE <<Join(<<" ">>, Slice(words, i, i + sz))>> \o ChunksFrom(words, i + sz, sz)

\* the loop started one word late
split_into_chunks_skip(t, sz) == ChunksFrom(Split(t), 1, sz)

split_into_chunks(t, sz) == ChunksFrom(Split(t), 0, sz)

\* ------------------------------------------------ idle values per component
ChunkIdle == text = <<>> /\ size = 1 /\ chunks = <<>>
QueryIdle ==
    /\ n_results = 1 /\ retrieve_summaries_first = TRUE /\ where_filter = None
    /\ results = <<>> /\ combined = <<>> /\ shown = <<>>
HierIdle == file_path = <<>> /\ root = <<>> /\ hierarchy = <<>>
IngestIdle ==
    /\ tree = <<>> /\ unreadable = {} /\ unembeddable = {} /\ chunk_size = 1
    /\ files = <<>> /\ pos = 1 /\ collection = <<>> /\ failure = None
    /\ run = 1 /\ added = <<>> /\ firstRun = <<>> /\ firstAdded = <<>>
CrawlIdle ==
    /\ start_url = None /\ visited = {} /\ queue = <<>> /\ fetches = <<>> /\ saved = {}

\* ------------------------------------------- specification of the chunker
RECURSIVE SeqsUpTo(_, _)
SeqsUpTo(S, n) ==
    IF n = 0 THEN {<<>>}
    ELSE LET shorter == SeqsUpTo(S, n - 1)
         IN  shorter \cup {Append(s, x) : s \in {t \in shorter : Len(t) = n - 1}, x \in S}

TextAlphabet == {"a", "b", " ", "\n"}

ChunkInit ==
    /\ pc = "call"
    /\ text \in SeqsUpTo(TextAlphabet, MaxLen)
    /\ size \in 1..MaxSize
    /\ chunks = <<>>
    /\ QueryIdle /\ HierIdle /\ IngestIdle /\ CrawlIdle

SplitIntoChunks ==
    /\ pc = "call"
    /\ chunks' = split_into_chunks(text, size)
    /\ pc' = "returned"
    /\ UNCHANGED <<text, size, queryVars, hierVars, treeVars, ingestVars, crawlVars>>

ChunkNext == SplitIntoChunks

SpecChunk == ChunkInit /\ [][ChunkNext]_vars

\* ------------------------------------------------ summaries-first query
Sections == {"docs"}

\* the answers the store can give to a request for k records: at most k hits
\* (metadata type, distance), in any order the store may choose
StoreAnswers(k) == SeqsUpTo([type : {"summary", "content"}, dist : 0..MaxDist], k)

\* one hit of collection.query is (id, metadata, distance), the ids distinct;
\* of the metadata the merge reads the type only
WithIds(h) == [i \in 1..Len(h) |-> [id |-> i, type |-> h[i].type, dist |-> h[i].dist]]

\* the tests of the partition loop, lines 51-55
IsSummaryHit(h) == h.type = "summary"
IsContentHit(h) == ~IsSummaryHit(h)

RECURSIVE InsertByDist(_, _)
\* x placed after every element whose distance is not larger (a stable sort)
InsertByDist(sorted, x) ==
    IF sorted = <<>> THEN <<x>>
    ELSE IF sorted[1].dist <= x.dist
         THEN <<sorted[1]>> \o InsertByDist(Tail(sorted), x)
         ELSE <<x>> \o sorted

RECURSIVE SortByDist(_)
\* list.sort(key=lambda x: x[2])
SortByDist(seq) ==
    IF seq = <<>> THEN <<>>
    ELSE InsertByDist(SortByDist(SubSeq(seq, 1, Len(seq) - 1)), seq[Len(seq)])

\* content first: the two partitions swapped in the merge
CombineContentFirst(summaries, content, n) ==
    LET first == Slice(content, 0, n)
    IN  IF Len(first) < n
        THEN first \o Slice(summaries, 0, n - Len(first))
        ELSE first

\* the backfill taking n_results content records whatever was taken before
CombineOverfill(summaries, content, n) ==
    LET first == Slice(summaries, 0, n)
    IN  IF Len(first) < n
        THEN first \o Slice(content, 0, n)
        ELSE first

\* lines 62-64: up to n summaries, backfilled with content
Combine(summaries, content, n) ==
    LET first == Slice(summaries, 0, n)
    IN  IF Len(first) < n
        THEN first \o Slice(content, 0, n - Len(first))
        ELSE first

Merged(hits, n) ==
    Combine(SortByDist(SelectSeq(hits, IsSummaryHit)),
            SortByDist(SelectSeq(hits, IsContentHit)), n)

QueryInit ==
    /\ pc = "call"
    /\ n_results = 1 /\ retrieve_summaries_first = TRUE /\ where_filter = None
    /\ results = <<>> /\ combined = <<>> /\ shown = <<>>
    /\ ChunkIdle /\ HierIdle /\ IngestIdle /\ CrawlIdle

QueryWithHierarchy(n, first, section) ==
    /\ pc = "call"
    /\ n_results' = n
    /\ retrieve_summaries_first' = first
    /\ where_filter' = IF section # None THEN [section |-> section] ELSE None
    /\ LET n_to_retrieve == IF first THEN n * 2 ELSE n
       IN  \E answer \in StoreAnswers(n_to_retrieve) :
               LET hits == WithIds(answer)
               IN  /\ results' = hits
                   /\ IF first
                      THEN /\ combined' = Merged(hits, n)
                           /\ shown' = Merged(hits, n)
                      ELSE /\ combined' = <<>>
                           /\ shown' = hits
    /\ pc' = "returned"
    /\ UNCHANGED <<chunkVars, hierVars, treeVars, ingestVars, crawlVars>>

QueryNext ==
    \E n \in 1..MaxN, first \in BOOLEAN, section \in Sections \cup {None} :
        QueryWithHierarchy(n, first, section)

SpecQuery == QueryInit /\ [][QueryNext]_vars

Min(a, b) == IF a <= b THEN a ELSE b

\* C1: in summaries-first mode the merged list has exactly
\* min(n_results, number of hits returned) elements.
CombinedLength ==
    (pc = "returned" /\ retrieve_summaries_first) =>
        Len(combined) = Min(n_results, Len(results))

\* more hits than requested, both kinds present: the list is cut at n_results
CombinedLengthWitness ==
    /\ pc = "returned" /\ retrieve_summaries_first
    /\ n_results = 2 /\ Len(results) = 4 /\ Len(combined) = 2
    /\ \E i \in 1..4 : results[i].type = "summary"
    /\ \E i \in 1..4 : results[i].type = "content"

\* C2: in summaries-first mode every summary of the merged list precedes
\* every other record, and distance is non-decreasing among the summaries
\* and among the content records.
SummariesFirstSorted ==
    (pc = "returned" /\ retrieve_summaries_first) =>
        \A i, j \in 1..Len(combined) :
            i < j =>
                /\ combined[j].type = "summary" => combined[i].type = "summary"
                /\ combined[i].type = combined[j].type => combined[i].dist <= combined[j].dist

\* 4 hits in distance order, the only summary ranked 3rd, n_results = 2:
\* the merged list is [summary, closest content]
PromotedSummaryWitness ==
    /\ pc = "returned" /\ retrieve_summaries_first
    /\ n_results = 2 /\ Len(results) = 4
    /\ \A i \in 1..3 : results[i].dist <= results[i + 1].dist
    /\ results[1].dist < results[3].dist
    /\ \A i \in 1..4 : (results[i].type = "summary") = (i = 3)
    /\ combined = <<results[3], results[1]>>

\* ------------------------------------------------------------ paths
\* pathlib: a path is the sequence of its components, <<>> the filesystem root
Parent(p) == IF p = <<>> THEN <<>> ELSE SubSeq(p, 1, Len(p) - 1)
Name(p) == IF p = <<>> THEN <<>> ELSE p[Len(p)]

IsPrefix(p, q) == Len(p) <= Len(q) /\ SubSeq(q, 1, Len(p)) = p

DirNames == {<<"e", "n">>, <<"d", "o", "c">>}

\* ------------------------------------------------- hierarchy deriver
Reverse(seq) == [i \in 1..Len(seq) |-> seq[Len(seq) + 1 - i]]

RECURSIVE WalkUp(_, _, _)
\* the loop of lines 61-63: names collected leaf first
WalkUp(current, rt, collected) ==
    IF current # rt /\ current # Parent(current)
    THEN WalkUp(Parent(current), rt, Append(collected, Name(current)))
    ELSE collected

\* the names returned in the order collected, leaf first
get_folder_hierarchy_unreversed(fp, rt) == WalkUp(Parent(fp), rt, <<>>)

get_folder_hierarchy(fp, rt) == Reverse(WalkUp(Parent(fp), rt, <<>>))

HierInit ==
    /\ pc = "call"
    /\ root \in SeqsUpTo(DirNames, MaxDepth - 1)
    /\ \E dir \in SeqsUpTo(DirNames, MaxDepth) :
           file_path = Append(dir, <<"x", ".", "m", "d">>)
    /\ hierarchy = <<>>
    /\ ChunkIdle /\ QueryIdle /\ IngestIdle /\ CrawlIdle

GetFolderHierarchy ==
    /\ pc = "call"
    /\ hierarchy' = get_folder_hierarchy(file_path, root)
    /\ pc' = "returned"
    /\ UNCHANGED <<file_path, root, chunkVars, queryVars, treeVars, ingestVars, crawlVars>>

HierNext == GetFolderHierarchy

SpecHier == HierInit /\ [][HierNext]_vars

\* C6: for a document at root/d1/.../dk/doc.md the result is <<d1, ..., dk>>,
\* root first (empty directly under the root); when the root is no ancestor
\* the walk ends at the filesystem root with every ancestor's name.
HierarchyIsRelativeParent ==
    pc = "returned" =>
        LET dir == Parent(file_path)
        IN  IF IsPrefix(root, dir)
            THEN /\ Len(hierarchy) = Len(dir) - Len(root)
                 /\ \A k \in 1..Len(hierarchy) : hierarchy[k] = dir[Len(root) + k]
            ELSE hierarchy = dir

\* a document two folders below a root that is not the filesystem root
HierarchyWitness ==
    /\ pc = "returned"
    /\ root # <<>> /\ IsPrefix(root, Parent(file_path))
    /\ Len(hierarchy) = 2 /\ hierarchy[1] # hierarchy[2]
    /\ hierarchy[2] = Name(Parent(file_path))

\* a document directly under the root has the empty hierarchy
HierarchyAtRootWitness ==
    /\ pc = "returned" /\ root # <<>> /\ Parent(file_path) = root /\ hierarchy = <<>>

\* a root that is no ancestor: the walk stops at the filesystem root
HierarchyForeignRootWitness ==
    /\ pc = "returned" /\ ~IsPrefix(root, Parent(file_path))
    /\ Len(hierarchy) = 2 /\ hierarchy = Parent(file_path)

\* ------------------------------------------------ names and ordering
SummaryName == <<"_", "s", "u", "m", "m", "a", "r", "y", ".", "m", "d">>
DocName == <<"x", ".", "m", "d">>
NoteName == <<"n", ".", "t", "x", "t">>
MdSuffix == <<".", "m", "d">>

\* the characters names are made of, in code-point order
CodeOrder == <<".", "_", "a", "b", "c", "d", "e", "k", "m", "n", "o", "r", "s", "t", "u", "x", "y">>
Ord(ch) == CHOOSE i \in 1..Len(CodeOrder) : CodeOrder[i] = ch

RECURSIVE StrLt(_, _)
\* str.__lt__: lexicographic by code point, a proper prefix first
StrLt(a, b) ==
    IF b = <<>> THEN FALSE
    ELSE IF a = <<>> THEN TRUE
    ELSE IF a[1] # b[1] THEN Ord(a[1]) < Ord(b[1])
    ELSE StrLt(Tail(a), Tail(b))

RECURSIVE PathLt(_, _)
\* PurePath.__lt__: the component lists compared lexicographically
PathLt(p, q) ==
    IF q = <<>> THEN FALSE
    ELSE IF p = <<>> THEN TRUE
    ELSE IF p[1] # q[1] THEN StrLt(p[1], q[1])
    ELSE PathLt(Tail(p), Tail(q))

\* str.rfind(".") (0 when there is no dot; positions count from 1)
LastDot(name) ==
    LET dots == {i \in 1..Len(name) : name[i] = "."}
    IN  IF dots = {} THEN 0 ELSE CHOOSE i \in dots : \A j \in dots : j <= i

\* PurePath.suffix and PurePath.stem: a leading or trailing dot starts no suffix
HasSuffix(name) == 1 < LastDot(name) /\ LastDot(name) < Len(name)
Suffix(name) == IF HasSuffix(name) THEN SubSeq(name, LastDot(name), Len(name)) ELSE <<>>
Stem(name) == IF HasSuffix(name) THEN SubSeq(name, 1, LastDot(name) - 1) ELSE name

\* fnmatch of a name against "*.md"
MatchesMd(name) ==
    Len(name) >= Len(MdSuffix)
    /\ SubSeq(name, Len(name) - Len(MdSuffix) + 1, Len(name)) = MdSuffix

Digits == <<"0", "1", "2", "3", "4", "5", "6", "7", "8", "9">>

RECURSIVE Str(_)
\* str(n) of a natural number
Str(n) == IF n < 10 THEN <<Digits[n + 1]>> ELSE Str(n \div 10) \o <<Digits[(n % 10) + 1]>>

\* ---------------------------------------------------- the document tree
ROOT_DIR == << <<"k", "b">> >>

\* the folders of the tree, relative to ROOT_DIR
TreeDirs == {<<>>, << <<"e", "n">> >>, << <<"d", "o", "c">> >>, << <<"e", "n">>, <<"e", "n">> >>}

CandidateFiles == {ROOT_DIR \o d \o <<nm>> : d \in TreeDirs, nm \in {SummaryName, DocName, NoteName}}

\* documents are empty, a line followed by a heading, or a single word
Texts == {<<>>, <<"a", "\n", "#", " ", "b">>, <<"a">>}

RECURSIVE SubsetsUpTo(_, _)
SubsetsUpTo(S, k) ==
    IF k = 0 THEN {{}}
    ELSE LET smaller == SubsetsUpTo(S, k - 1)
         IN  smaller \cup {x \cup {c} : x \in smaller, c \in S}

\* a tree gives every Markdown file a text; other files are never read
Trees ==
    UNION {{t \in [S -> Texts] : \A f \in S : ~MatchesMd(Name(f)) => t[f] = <<>>} :
             S \in SubsetsUpTo(CandidateFiles, MaxFiles)}

FilesOf(t) == DOMAIN t

\* a directory exists when a file lies below it; ROOT_DIR always exists
IsDir(t, p) == p = ROOT_DIR \/ \E f \in FilesOf(t) : Len(f) > Len(p) /\ IsPrefix(p, f)

\* folder.iterdir(): the immediate children, files and directories
Children(t, folder) ==
    {SubSeq(f, 1, Len(folder) + 1) : f \in {g \in FilesOf(t) : Len(g) > Len(folder) /\ IsPrefix(folder, g)}}

RECURSIVE SortedPaths(_)
\* sorted() of a set of paths
SortedPaths(S) ==
    IF S = {} THEN <<>>
    ELSE LET least == CHOOSE p \in S : \A q \in S \ {p} : PathLt(p, q)
         IN  <<least>> \o SortedPaths(S \ {least})

\* ---------------------------------------------------------- helpers
read_markdown(t, path) == t[path]

RECURSIVE SplitLinesFrom(_, _, _)
\* str.splitlines(): lines end at a newline; no empty last line
SplitLinesFrom(s, i, cur) ==
    IF i > Len(s)
    THEN IF cur = <<>> THEN <<>> ELSE <<cur>>
    ELSE IF s[i] = "\n"
         THEN <<cur>> \o SplitLinesFrom(s, i + 1, <<>>)
         ELSE SplitLinesFrom(s, i + 1, Append(cur, s[i]))

SplitLines(s) == SplitLinesFrom(s, 1, <<>>)

RECURSIVE LStrip(_, _)
\* str.lstrip(chars)
LStrip(s, chars) ==
    IF s # <<>> /\ s[1] \in chars THEN LStrip(Tail(s), chars) ELSE s

RECURSIVE RStrip(_, _)
RStrip(s, chars) ==
    IF s # <<>> /\ s[Len(s)] \in chars THEN RStrip(SubSeq(s, 1, Len(s) - 1), chars) ELSE s

\* str.strip()
Strip(s) == RStrip(LStrip(s, Whitespace), Whitespace)

RECURSIVE FirstHeading(_)
\* the loop of lines 42-45
FirstHeading(lines) ==
    IF lines = <<>> THEN <<>>
    ELSE IF lines[1] # <<>> /\ lines[1][1] = "#"
         THEN Strip(LStrip(lines[1], {"#", " "}))
         ELSE FirstHeading(Tail(lines))

extract_title(t) == FirstHeading(SplitLines(t))

\* every file counted as a summary anchor
is_summary_file_always(path) == TRUE

is_summary_file(path) == Name(path) = SummaryName

\* the sort key of line 51-54, False before True
KeyLe(a, b) ==
    \/ PathLt(Parent(a), Parent(b))
    \/ /\ Parent(a) = Parent(b)
       /\ (Name(a) = SummaryName) => (Name(b) = SummaryName)

RECURSIVE InsertByKey(_, _)
InsertByKey(sorted, x) ==
    IF sorted = <<>> THEN <<x>>
    ELSE IF KeyLe(sorted[1], x)
         THEN <<sorted[1]>> \o InsertByKey(Tail(sorted), x)
         ELSE <<x>> \o sorted

RECURSIVE SortedByKey(_)
\* sorted(list, key=...): stable
SortedByKey(seq) ==
    IF seq = <<>> THEN <<>>
    ELSE InsertByKey(SortedByKey(SubSeq(seq, 1, Len(seq) - 1)), seq[Len(seq)])

RECURSIVE Perms(_)
Perms(S) ==
    IF S = {} THEN {<<>>}
    ELSE UNION {{<<x>> \o p : p \in Perms(S \ {x})} : x \in S}

\* root.rglob("*.md"): the Markdown files below the root, in whatever order
\* the filesystem lists them
Rglob(t, rt) == Perms({f \in FilesOf(t) : IsPrefix(rt, f) /\ Len(f) > Len(rt) /\ MatchesMd(Name(f))})

\* the lists walk_markdown_files can return
walk_markdown_files(t, rt) == {SortedByKey(listed) : listed \in Rglob(t, rt)}

Lit(n) == CASE n = "dash" -> <<"-", " ">>
            [] n = "folder" -> <<"/", " ", "(", "f", "o", "l", "d", "e", "r", ")">>
            [] n = "document" -> <<" ", "(", "d", "o", "c", "u", "m", "e", "n", "t", ")">>
            [] n = "empty" -> <<"(", "E", "m", "p", "t", "y", " ", "f", "o", "l", "d", "e", "r", ")">>
            [] n = "chunk" -> <<":", ":", "c", "h", "u", "n", "k", "-">>

RECURSIVE ListingLines(_, _)
\* the loop of lines 74-78 over the sorted children
ListingLines(t, children) ==
    IF children = <<>> THEN <<>>
    ELSE LET child == children[1]
             rest == ListingLines(t, Tail(children))
         IN  IF IsDir(t, child)
             THEN <<Lit("dash") \o Name(child) \o Lit("folder")>> \o rest
             ELSE IF Suffix(Name(child)) = MdSuffix /\ Name(child) # SummaryName
                  THEN <<Lit("dash") \o Stem(Name(child)) \o Lit("document")>> \o rest
                  ELSE rest

FolderListing(t, folder) == ListingLines(t, SortedPaths(Children(t, folder)))

get_folder_contents_summary(t, folder) ==
    IF FolderListing(t, folder) # <<>>
    THEN Join(<<"\n">>, FolderListing(t, folder))
    ELSE Lit("empty")

\* ------------------------------------------------------- main, per document
\* line 95: file_path.relative_to(ROOT_DIR).as_posix()
RelPath(path) == Join(<<"/">>, SubSeq(path, Len(ROOT_DIR) + 1, Len(path)))

\* line 97
Title(t, path) ==
    IF extract_title(read_markdown(t, path)) # <<>>
    THEN extract_title(read_markdown(t, path))
    ELSE Stem(Name(path))

\* lines 106-108
FolderContents(t, path) ==
    IF is_summary_file(path) THEN get_folder_contents_summary(t, Parent(path)) ELSE <<>>

\* line 111, with the configured size as the default argument
DocChunks(t, path, sz) == split_into_chunks(read_markdown(t, path), sz)

\* an id drawn afresh for every record added, as from uuid
ChunkIdFresh(rel, idx) == rel \o Lit("chunk") \o Str(idx + Cardinality(DOMAIN collection))

\* line 119
ChunkId(rel, idx) == rel \o Lit("chunk") \o Str(idx)

\* the embedding function is opaque and deterministic
Embed(chunk) == [vector_of |-> chunk]

\* the depth counted from one
BaseMetadataDeepByOne(t, path, idx) ==
    [path |-> RelPath(path),
     title |-> Title(t, path),
     section |-> Name(Parent(path)),
     chunk_index |-> idx,
     type |-> IF is_summary_file(path) THEN "summary" ELSE "content",
     is_summary |-> IF is_summary_file(path) THEN "true" ELSE "false",
     depth |-> Len(get_folder_hierarchy(path, ROOT_DIR)) + 1,
     parent_folders |-> get_folder_hierarchy(path, ROOT_DIR)]

\* lines 124-133
BaseMetadata(t, path, idx) ==
    [path |-> RelPath(path),
     title |-> Title(t, path),
     section |-> Name(Parent(path)),
     chunk_index |-> idx,
     type |-> IF is_summary_file(path) THEN "summary" ELSE "content",
     is_summary |-> IF is_summary_file(path) THEN "true" ELSE "false",
     depth |-> Len(get_folder_hierarchy(path, ROOT_DIR)),
     parent_folders |-> get_folder_hierarchy(path, ROOT_DIR)]

SetItem(d, key, value) == [k \in DOMAIN d \cup {key} |-> IF k = key THEN value ELSE d[k]]

\* dict.update(list of str) raises ValueError at the first element that is
\* not of length 2
UpdateRaises(names) == \E i \in 1..Len(names) : Len(names[i]) # 2

RECURSIVE DictUpdate(_, _)
\* dict.update(list of str): each two-character string is a (key, value) pair
DictUpdate(d, names) ==
    IF names = <<>> THEN d
    ELSE DictUpdate(SetItem(d, names[1][1], names[1][2]), Tail(names))

\* lines 124-142: the metadata of one chunk, when line 136 does not raise
Metadata(t, path, idx) ==
    LET updated == DictUpdate(BaseMetadata(t, path, idx), get_folder_hierarchy(path, ROOT_DIR))
    IN  IF is_summary_file(path) /\ FolderContents(t, path) # <<>>
        THEN SetItem(updated, "folder_contents", FolderContents(t, path))
        ELSE updated

\* lines 114-142: ids, embeddings and metadatas of one document
Batch(t, path, sz) ==
    LET cs == DocChunks(t, path, sz)
    IN  [k \in 1..Len(cs) |->
            [id |-> ChunkId(RelPath(path), k - 1),
             embedding |-> Embed(cs[k]),
             metadata |-> Metadata(t, path, k - 1)]]

\* collection.add: the records stored under their ids
Add(coll, batch) ==
    LET ids == {batch[k].id : k \in 1..Len(batch)}
    IN  [id \in DOMAIN coll \cup ids |->
            IF id \in ids
            THEN LET k == CHOOSE j \in 1..Len(batch) : batch[j].id = id
                 IN  [embedding |-> batch[k].embedding, metadata |-> batch[k].metadata]
            ELSE coll[id]]

CHUNK_SIZE == 500

\* the configured chunk size: the shipped one, or one under which the short
\* documents of the model have several chunks
ChunkSizes == {2, CHUNK_SIZE}

MdFiles(t) == {f \in FilesOf(t) : MatchesMd(Name(f))}

\* at most one document of the tree cannot be read or cannot be embedded
IngestInit ==
    /\ pc = "start"
    /\ tree \in Trees
    /\ chunk_size \in ChunkSizes
    /\ unreadable \in {{}} \cup {{f} : f \in MdFiles(tree)}
    /\ unembeddable \in {{}} \cup {{f} : f \in MdFiles(tree)}
    /\ unreadable = {} \/ unembeddable = {}
    /\ files = <<>> /\ pos = 1 /\ collection = <<>> /\ failure = None
    /\ run = 1 /\ added = <<>> /\ firstRun = <<>> /\ firstAdded = <<>>
    /\ ChunkIdle /\ QueryIdle /\ HierIdle /\ CrawlIdle

\* lines 84-93: the collection is opened and the tree walked
StartRun ==
    /\ pc = "start"
    /\ files' \in walk_markdown_files(tree, ROOT_DIR)
    /\ pos' = 1
    /\ pc' = "loop"
    /\ UNCHANGED <<collection, failure, run, added, firstRun, firstAdded>>
    /\ UNCHANGED <<chunkVars, queryVars, hierVars, treeVars, crawlVars>>

\* an exception nothing catches ends main
Raise(what) ==
    /\ failure' = what
    /\ pc' = "crashed"
    /\ UNCHANGED <<files, pos, collection, run, added, firstRun, firstAdded>>

\* lines 94-149: one iteration of the loop over the files
ProcessFile ==
    /\ pc = "loop"
    /\ pos <= Len(files)
    /\ LET path == files[pos]
           embedded == DocChunks(tree, path, chunk_size) # <<>>
       IN  \/ /\ path \in unreadable
              /\ Raise("read")
           \/ /\ path \notin unreadable
              /\ embedded /\ path \in unembeddable
              /\ Raise("embed")
           \/ /\ path \notin unreadable
              /\ embedded /\ path \notin unembeddable
              /\ UpdateRaises(get_folder_hierarchy(path, ROOT_DIR))
              /\ Raise("update")
           \/ /\ path \notin unreadable
              /\ embedded => /\ path \notin unembeddable
                             /\ ~UpdateRaises(get_folder_hierarchy(path, ROOT_DIR))
              /\ collection' = Add(collection, Batch(tree, path, chunk_size))
              /\ added' = Append(added, [path |-> path, batch |-> Batch(tree, path, chunk_size)])
              /\ pos' = pos + 1
              /\ UNCHANGED <<pc, files, failure, run, firstRun, firstAdded>>
    /\ UNCHANGED <<chunkVars, queryVars, hierVars, treeVars, crawlVars>>

\* lines 151-157: the loop is over
Finish ==
    /\ pc = "loop"
    /\ pos > Len(files)
    /\ pc' = "done"
    /\ UNCHANGED <<chunkVars, queryVars, hierVars, treeVars, ingestVars, crawlVars>>

\* main run a second time over the unchanged tree and the persisted store
Rerun ==
    /\ pc \in {"done", "crashed"}
    /\ run = 1
    /\ run' = 2
    /\ firstRun' = collection
    /\ firstAdded' = added
    /\ added' = <<>>
    /\ failure' = None
    /\ files' = <<>>
    /\ pos' = 1
    /\ pc' = "start"
    /\ UNCHANGED <<collection, chunkVars, queryVars, hierVars, treeVars, crawlVars>>

IngestNext == StartRun \/ ProcessFile \/ Finish \/ Rerun

SpecIngest == IngestInit /\ [][IngestNext]_vars

Ended == pc \in {"done", "crashed"}

\* ---------------------------------------------------------------- C3
RECURSIVE Flatten(_)
Flatten(ss) == IF ss = <<>> THEN <<>> ELSE ss[1] \o Flatten(Tail(ss))

WordsOfChunks(cs) == Flatten([k \in 1..Len(cs) |-> Split(cs[k])])

CeilDiv(a, b) == (a + b - 1) \div b

EmptyChunksWitness ==
    /\ pc = "returned" /\ text # <<>> /\ Split(text) = <<>> /\ chunks = <<>>

\* ------------------------------------------------ properties of ingestion
SchemaKeys ==
    {"path", "title", "section", "chunk_index", "type", "is_summary", "depth", "parent_folders"}

StoredMetadata == {collection[id].metadata : id \in DOMAIN collection}

\* every batch submitted so far, in either run
Submitted == {added[i] : i \in 1..Len(added)} \cup {firstAdded[i] : i \in 1..Len(firstAdded)}

\* C4: the metadata of every stored record has exactly the schema's fields,
\* folder_contents being optional, and no other key.
MetadataKeysExact ==
    \A m \in StoredMetadata :
        /\ SchemaKeys \subseteq DOMAIN m
        /\ DOMAIN m \subseteq SchemaKeys \cup {"folder_contents"}

\* C5: for every record, is_summary is "true" exactly when type is "summary",
\* both exactly when the document is named _summary.md, and depth is the
\* length of parent_folders.
MetadataInvariant ==
    /\ \A m \in StoredMetadata :
           /\ (m.is_summary = "true") <=> (m.type = "summary")
           /\ m.is_summary \in {"true", "false"} /\ m.type \in {"summary", "content"}
           /\ m.depth = Len(m.parent_folders)
    /\ \A b \in Submitted : \A k \in 1..Len(b.batch) :
           (b.batch[k].metadata.type = "summary") <=> (Name(b.path) = SummaryName)

\* an anchor two folders deep and a content document are both stored
MetadataWitness ==
    /\ \E m \in StoredMetadata : m.type = "summary" /\ m.depth = 2
    /\ \E m \in StoredMetadata : m.type = "content" /\ m.is_summary = "false"

\* C7: a record carries folder_contents only when its document is an anchor
\* and the listing of the folder's sub-folders and other Markdown documents
\* is not empty.
FolderContentsOnlyWhenListed ==
    \A b \in Submitted : \A k \in 1..Len(b.batch) :
        "folder_contents" \in DOMAIN b.batch[k].metadata =>
            /\ Name(b.path) = SummaryName
            /\ FolderListing(tree, Parent(b.path)) # <<>>

\* a document that main can process to the end when it comes to it
ProcessesCleanly(path) ==
    /\ path \notin unreadable
    /\ path \notin unembeddable
    /\ ~UpdateRaises(get_folder_hierarchy(path, ROOT_DIR))

IsStored(path) ==
    \A k \in 1..Len(Batch(tree, path, chunk_size)) :
        Batch(tree, path, chunk_size)[k].id \in DOMAIN collection

\* C8: when reading or embedding one document fails, every other document
\* that reads and embeds without error still has its records in the store.
FailureDoesNotAbort ==
    (pc = "crashed" /\ failure \in {"read", "embed"}) =>
        \A path \in MdFiles(tree) : ProcessesCleanly(path) => IsStored(path)

AnchorFirstInFolder ==
    \A i, j \in 1..Len(files) :
        /\ (i < j /\ Parent(files[i]) = Parent(files[j])) =>
               \A k \in i..j : Parent(files[k]) = Parent(files[i])
        /\ (/\ Parent(files[i]) = Parent(files[j])
            /\ Name(files[i]) = SummaryName
            /\ Name(files[j]) # SummaryName) => i < j

\* --------------------------------------------------------------- crawler
\* A URL is its network location and path; an href also has a fragment and,
\* when relative, no network location.
Netlocs == {"a.org", "b.org"}
UrlPaths == {"/", "/p", "/q"}
Urls == [netloc : Netlocs, path : UrlPaths]

\* the forms of href a page holds: relative, relative with a fragment, a bare
\* fragment, absolute on one site, absolute on the other
Hrefs ==
    {[netloc |-> None, path |-> "/p", frag |-> ""],
     [netloc |-> None, path |-> "/q", frag |-> "x"],
     [netloc |-> None, path |-> "", frag |-> "x"],
     [netloc |-> "a.org", path |-> "/", frag |-> ""],
     [netloc |-> "b.org", path |-> "/p", frag |-> ""]}

\* urllib.parse.urldefrag(href)[0]: the href without its fragment
urldefrag(href) == [netloc |-> href.netloc, path |-> href.path]

\* urllib.parse.urljoin(base, ref) for an absolute reference, an empty one
\* and one that is an absolute path
urljoin(base, ref) ==
    IF ref.netloc # None THEN [netloc |-> ref.netloc, path |-> ref.path]
    ELSE IF ref.path = "" THEN base
    ELSE [netloc |-> base.netloc, path |-> ref.path]

\* the test of line 99 never true
AlreadyVisitedNever(url) == FALSE

\* line 99
AlreadyVisited(url) == url \in visited

\* lines 118-127 for the links of the page at url, seen being the visited set
RECURSIVE LinksToQueue(_, _, _)
LinksToQueue(url, links, seen) ==
    IF links = <<>> THEN <<>>
    ELSE LET child == urljoin(url, urldefrag(links[1]))
             rest == LinksToQueue(url, Tail(links), seen)
         IN  IF child.netloc = start_url.netloc /\ child \notin seen
             THEN <<child>> \o rest
             ELSE rest

\* lines 91-95
CrawlInit ==
    /\ pc = "loop"
    /\ start_url \in Urls
    /\ visited = {}
    /\ queue = <<start_url>>
    /\ fetches = [u \in Urls |-> 0]
    /\ saved = {}
    /\ ChunkIdle /\ QueryIdle /\ HierIdle /\ IngestIdle

\* lines 97-127: one iteration of the loop; the page fetched is whatever the
\* site serves at that moment, or nothing when the fetch fails
CrawlStep ==
    /\ pc = "loop"
    /\ queue # <<>>
    /\ LET url == Head(queue)
       IN  \/ /\ AlreadyVisited(url)
              /\ queue' = Tail(queue)
              /\ UNCHANGED <<visited, fetches, saved>>
           \/ /\ ~AlreadyVisited(url)
              /\ visited' = visited \cup {url}
              /\ fetches' = [fetches EXCEPT ![url] = @ + 1]
              /\ \/ /\ queue' = Tail(queue)
                    /\ UNCHANGED saved
                 \/ \E links \in SeqsUpTo(Hrefs, MaxLinks), md \in BOOLEAN :
                        /\ saved' = IF md THEN saved \cup {url} ELSE saved
                        /\ queue' = Tail(queue) \o LinksToQueue(url, links, visited \cup {url})
    /\ UNCHANGED <<pc, start_url, chunkVars, queryVars, hierVars, treeVars, ingestVars>>

\* line 97: the queue is empty and crawl returns
CrawlReturn ==
    /\ pc = "loop"
    /\ queue = <<>>
    /\ pc' = "done"
    /\ UNCHANGED <<chunkVars, queryVars, hierVars, treeVars, ingestVars, crawlVars>>

CrawlNext == CrawlStep \/ CrawlReturn

\* the loop is sequential and every fetch ends (timeout=10): a step that can
\* be taken is taken
SpecCrawl == CrawlInit /\ [][CrawlNext]_vars /\ WF_vars(CrawlNext)

FetchedAtMostOnce == \A u \in Urls : fetches[u] <= 1

FetchedOnStartSite ==
    \A u \in Urls : (fetches[u] > 0 /\ u # start_url) => u.netloc = start_url.netloc

====
